---------------------------- MODULE Spec2Model ----------------------------
(***************************************************************************)
(* Model of the conflict detection, recommendation, simulation and batch   *)
(* resolution engine of the train traffic controller                       *)
(* (src/lib/optimization-engine.ts, src/unnamed/part_000 = the conflict    *)
(* resolver, src/lib/simulation-engine.ts).                                *)
(*                                                                         *)
(* Numbers.  Every time quantity (delay, arrival time, hold time, delay    *)
(* reduction) is an integer count of 1/20 minute, so that the half minutes *)
(* of the delays and the factors 0.4 .. 0.7 of the estimated impacts stay  *)
(* exact.  Confidences are in hundredths, priority weights in tenths and   *)
(* resolver scores in twentieths of a point.                               *)
(***************************************************************************)
EXTENDS Integers, Sequences, FiniteSets, TLC

VARIABLES
    opts,        \* TrainOptimizationEngine.options (allowRerouting, allowPriorityOverride)
    trains,      \* the caller's train list (Train[])
    conflicts,   \* the caller's conflict list (Conflict[])
    out,         \* what the last call returned (or that it threw)
    kpis,        \* the KPIs of the caller's current state
    scenarios,   \* SimulationEngine.scenarios: the scenario with id i at position i
    results,     \* SimulationEngine.results: scenario id -> SimulationResult
    run,         \* the locals of the runSimulation call in progress
    engine       \* the RealTimeEngine of the module real-time-engine

(***************************************************************************)
(* Bounds of the model                                                     *)
(***************************************************************************)
MaxTrains == 3
MaxConflicts == 2
MaxScenarios == 2
MaxDuration == 1
MaxEvents == 4
MaxInits == 2

(***************************************************************************)
(* Generic helpers                                                         *)
(***************************************************************************)
Max(a, b) == IF a >= b THEN a ELSE b
Min(a, b) == IF a <= b THEN a ELSE b
Abs(a) == IF a >= 0 THEN a ELSE 0 - a
minutes(m) == 20 * m

RECURSIVE Flatten(_)
Flatten(ss) == IF ss = << >> THEN << >> ELSE Head(ss) \o Flatten(Tail(ss))

RECURSIVE SumSeq(_)
SumSeq(s) == IF s = << >> THEN 0 ELSE Head(s) + SumSeq(Tail(s))

\* The elements of seq at the positions in keep, in their order in seq
\* (Array.prototype.filter, and first-insertion order of a Map's keys).
AtPositions(seq, keep) ==
    [p \in 1..Cardinality(keep) |->
        seq[CHOOSE i \in keep : Cardinality({j \in keep : j < i}) = p - 1]]

Filter(seq, Test(_)) == AtPositions(seq, {i \in 1..Len(seq) : Test(seq[i])})


\* a sort whose comparator has its operands swapped: ascending
sortSwapped(items, keys) ==
    LET n == Len(items)
        rank(i) == Cardinality({j \in 1..n :
                       keys[j] < keys[i] \/ (keys[j] = keys[i] /\ j < i)}) + 1
    IN  [p \in 1..n |-> items[CHOOSE i \in 1..n : rank(i) = p]]

\* Array.prototype.sort with the comparator (a, b) => key(b) - key(a): a
\* stable sort (ES2019), descending in the key; keys[i] is the key of items[i].
sortDescending(items, keys) ==
    LET n == Len(items)
        rank(i) == Cardinality({j \in 1..n :
                       keys[j] > keys[i] \/ (keys[j] = keys[i] /\ j < i)}) + 1
    IN  [p \in 1..n |-> items[CHOOSE i \in 1..n : rank(i) = p]]

\* The same with the comparator (a, b) => key(a) - key(b).
sortAscending(items, keys) ==
    LET n == Len(items)
        rank(i) == Cardinality({j \in 1..n :
                       keys[j] < keys[i] \/ (keys[j] = keys[i] /\ j < i)}) + 1
    IN  [p \in 1..n |-> items[CHOOSE i \in 1..n : rank(i) = p]]

\* All pairs <<i, j>> with 1 <= i < j <= n, in the order of the nested loops
\* for (i = 0; ..) for (j = i + 1; ..).
PairSeq(n) ==
    LET S == {q \in (1..n) \X (1..n) : q[1] < q[2]}
        rank(q) == Cardinality({r \in S :
                       r[1] < q[1] \/ (r[1] = q[1] /\ r[2] < q[2])}) + 1
    IN  [p \in 1..Cardinality(S) |-> CHOOSE q \in S : rank(q) = p]

(***************************************************************************)
(* Domain model (src/lib/types.ts)                                         *)
(***************************************************************************)
NoStation == "none"      \* an undefined currentStation / nextStation
TrainIds == <<"T1", "T2", "T3", "T4", "T5">>

\* A Train; the id is given by the position in the caller's list.
Train(id, type, priority, cur, next, status, delay, speed) ==
    [id |-> id, type |-> type, priority |-> priority, cur |-> cur,
     next |-> next, status |-> status, delay |-> delay, speed |-> speed]

(***************************************************************************)
(* OptimizationConstraints, the defaults of the constructor                *)
(***************************************************************************)
safetyBuffer == 3
reroutingDelay == 10
minTrainSpeed == 1
singlePlatformDelay == 8
multiPlatformDelay == 3
baseTime == 30
trackConflictDelay == 8
minHoldTime == 3
defaultHoldMinutes == 5
holdConfidence == 85
rerouteConfidence == 72
priorityChangeConfidence == 65

\* priorityWeights, in tenths
priorityWeights ==
    [express |-> 10, suburban |-> 8, freight |-> 4, special |-> 12, maintenance |-> 2]

\* platformCapacity: {} by default
platformCapacity == [s \in {} |-> 0]


\* the priority without the weight of the train type
unweightedPriority(t) == t.priority * 10

\* priority * (priorityWeights[type] || 1.0), in tenths
weightedPriority(t) ==
    t.priority * (IF t.type \in DOMAIN priorityWeights /\ priorityWeights[t.type] # 0
                  THEN priorityWeights[t.type] ELSE 10)

(***************************************************************************)
(* Conflict detection                                                      *)
(***************************************************************************)
\* generateUniqueId: prefix, timestamp and random suffix.  An id is the
\* prefix, the two train ids, the detection pass (epoch) and a serial number:
\* ids of one pass differ from each other and from those of any other pass.
generateUniqueId(prefix, a, b, epoch, k) == <<prefix, a, b, epoch, k>>

Conflict(type, a, b, location, severity, estimatedDelay) ==
    [id |-> <<type, a, b, 0, 0>>, type |-> type, trains |-> <<a, b>>,
     location |-> location, severity |-> severity, estimatedDelay |-> estimatedDelay]

\* estimateArrivalTime: baseTime / (max(speed, minTrainSpeed) / 60) + delay.
\* The train pools only hold speeds that divide 60 * baseTime minutes.
estimateArrivalTime(t) ==
    (minutes(baseTime) * 60) \div Max(t.speed, minTrainSpeed) + t.delay

\* checkCrossingConflict: the conflict in a sequence of length 1, or << >> for null
checkCrossingConflict(t1, t2) ==
    IF t1.next = t2.next
    THEN LET timeDiff == Abs(estimateArrivalTime(t1) - estimateArrivalTime(t2))
         IN  IF timeDiff < minutes(safetyBuffer)
             THEN << Conflict("crossing", t1.id, t2.id,
                              IF t1.next # NoStation THEN t1.next ELSE "unknown",
                              IF timeDiff < minutes(1) THEN "critical" ELSE "medium",
                              Max(0, minutes(safetyBuffer) - timeDiff)) >>
             ELSE << >>
    ELSE << >>

\* platformCapacity[station || ""] || 1
stationCapacity(s) ==
    IF s \in DOMAIN platformCapacity /\ platformCapacity[s] # 0
    THEN platformCapacity[s] ELSE 1

\* checkPlatformConflict
checkPlatformConflict(t1, t2) ==
    IF t1.cur = t2.cur
    THEN << Conflict("platform", t1.id, t2.id,
                     IF t1.cur # NoStation THEN t1.cur ELSE "unknown",
                     "medium",
                     IF stationCapacity(t1.cur) > 1
                     THEN minutes(multiPlatformDelay)
                     ELSE minutes(singlePlatformDelay)) >>
    ELSE << >>

\* findTrackBetweenStations: the first matching track in a sequence of length
\* 1, or << >> for null
findTrackBetweenStations(from, to, tracks) ==
    IF from = NoStation \/ to = NoStation THEN << >>
    ELSE LET hits == {i \in 1..Len(tracks) :
                         \/ tracks[i].fromStation = from /\ tracks[i].toStation = to
                         \/ tracks[i].fromStation = to /\ tracks[i].toStation = from}
         IN  IF hits = {} THEN << >>
             ELSE << tracks[CHOOSE i \in hits : \A j \in hits : i <= j] >>

\* checkTrackConflict
checkTrackConflict(t1, t2, tracks) ==
    LET k1 == findTrackBetweenStations(t1.cur, t1.next, tracks)
        k2 == findTrackBetweenStations(t2.cur, t2.next, tracks)
    IN  IF k1 # << >> /\ k2 # << >> /\ k1[1].id = k2[1].id
        THEN << Conflict("track", t1.id, t2.id, k1[1].id, "high",
                         minutes(trackConflictDelay)) >>
        ELSE << >>

\* trainsByStation: every active train is pushed to the bucket of its
\* nextStation and then to the bucket of its currentStation.
stationPushes(active) ==
    Flatten([i \in 1..Len(active) |->
        (IF active[i].next # NoStation
         THEN << [st |-> active[i].next, tr |-> active[i]] >> ELSE << >>)
        \o
        (IF active[i].cur # NoStation
         THEN << [st |-> active[i].cur, tr |-> active[i]] >> ELSE << >>)])

\* the keys of trainsByStation in insertion order
stationOrder(pushes) ==
    LET firsts == {i \in 1..Len(pushes) :
                      \A j \in 1..(i - 1) : pushes[j].st # pushes[i].st}
        fs == AtPositions(pushes, firsts)
    IN  [p \in 1..Len(fs) |-> fs[p].st]

\* trainsByStation.get(station)
stationBucket(pushes, s) ==
    LET b == AtPositions(pushes, {i \in 1..Len(pushes) : pushes[i].st = s})
    IN  [p \in 1..Len(b) |-> b[p].tr]

\* the loop over one bucket: crossing, then platform, for every i < j
bucketConflicts(bucket) ==
    LET ps == PairSeq(Len(bucket))
    IN  Flatten([p \in 1..Len(ps) |->
            checkCrossingConflict(bucket[ps[p][1]], bucket[ps[p][2]])
            \o checkPlatformConflict(bucket[ps[p][1]], bucket[ps[p][2]])])

\* detectConflicts(trains, stations, tracks); stations is not read by the code.
\* epoch names the pass, for the ids.
detectConflicts(ts, tracks, epoch) ==
    LET active == Filter(ts, LAMBDA t : t.status # "cancelled")
        pushes == stationPushes(active)
        order == stationOrder(pushes)
        station == Flatten([p \in 1..Len(order) |->
                       bucketConflicts(stationBucket(pushes, order[p]))])
        ps == PairSeq(Len(active))
        track == Flatten([p \in 1..Len(ps) |->
                     checkTrackConflict(active[ps[p][1]], active[ps[p][2]], tracks)])
        withIds(all) ==
            [k \in 1..Len(all) |->
                [all[k] EXCEPT !.id = generateUniqueId(all[k].type, all[k].trains[1],
                                                       all[k].trains[2], epoch, k)]]
    IN  withIds(station \o track)


(***************************************************************************)
(* Recommendation generation                                               *)
(***************************************************************************)
\* The action text of a recommendation: the template and the number that is
\* interpolated into it (a time for "hold_for", nothing otherwise).
Action(text, amount) == [text |-> text, amount |-> amount]

Recommendation(prefix, conflict, type, target, action, confidence, delayReduction, affected) ==
    [id |-> <<prefix, target, conflict.id>>, conflictId |-> conflict.id, type |-> type,
     targetTrain |-> target, action |-> action, confidence |-> confidence,
     delayReduction |-> delayReduction, affectedTrains |-> affected]

\* a hold whose time leaves out the safety buffer
generateHoldWithoutBuffer(conflict, targetTrain, priorityTrain) ==
    Recommendation("hold", conflict, "hold", targetTrain.id,
                   Action("hold_for", Max(minutes(minHoldTime), conflict.estimatedDelay)),
                   holdConfidence, conflict.estimatedDelay,
                   <<targetTrain.id, priorityTrain.id>>)

\* generateHoldRecommendation: "Hold <name> (<number>) for <holdTime> minutes"
generateHoldRecommendation(conflict, targetTrain, priorityTrain) ==
    LET holdTime == Max(minutes(minHoldTime), conflict.estimatedDelay + minutes(safetyBuffer))
    IN  Recommendation("hold", conflict, "hold", targetTrain.id,
                       Action("hold_for", holdTime), holdConfidence,
                       conflict.estimatedDelay,
                       <<targetTrain.id, priorityTrain.id>>)

\* generateRerouteRecommendation: << >> for null
generateRerouteRecommendation(conflict, targetTrain) ==
    IF targetTrain.next = NoStation \/ targetTrain.cur = NoStation THEN << >>
    ELSE << Recommendation("reroute", conflict, "reroute", targetTrain.id,
                           Action("reroute_via", 0), rerouteConfidence,
                           (conflict.estimatedDelay * 6) \div 10,
                           <<targetTrain.id>>) >>

\* generatePriorityChangeRecommendation
generatePriorityChangeRecommendation(conflict, highPriorityTrain, lowPriorityTrain) ==
    Recommendation("priority", conflict, "priority_change", highPriorityTrain.id,
                   Action("reduce_priority", 0), priorityChangeConfidence,
                   (conflict.estimatedDelay * 4) \div 10,
                   <<highPriorityTrain.id, lowPriorityTrain.id>>)

\* conflict.trains.includes(t.id)
involves(conflict, t) == \E i \in 1..Len(conflict.trains) : conflict.trains[i] = t.id

\* generateRecommendations(conflict, trains) under the options O
generateRecommendations(conflict, ts, O) ==
    LET conflictTrains == Filter(ts, LAMBDA t : involves(conflict, t))
    IN  IF Len(conflictTrains) < 2 THEN << >>
        ELSE
        LET sortedTrains == sortDescending(conflictTrains,
                                [i \in 1..Len(conflictTrains) |-> weightedPriority(conflictTrains[i])])
            highPriorityTrain == sortedTrains[1]
            lowPriorityTrain == sortedTrains[2]
            recommendations ==
                << generateHoldRecommendation(conflict, lowPriorityTrain, highPriorityTrain) >>
                \o (IF O.allowRerouting
                    THEN generateRerouteRecommendation(conflict, lowPriorityTrain) ELSE << >>)
                \o (IF O.allowPriorityOverride /\ conflict.severity = "critical"
                    THEN << generatePriorityChangeRecommendation(conflict, highPriorityTrain,
                                                                 lowPriorityTrain) >>
                    ELSE << >>)
        IN  sortDescending(recommendations,
                [i \in 1..Len(recommendations) |-> recommendations[i].confidence])

(***************************************************************************)
(* Resolution simulator                                                    *)
(*                                                                         *)
(* Train lists are objects: a heap maps a region to the list stored there, *)
(* and a call receives the region of the list it is given.  "caller" is    *)
(* the list of the caller, "working" the working set of a batch call and   *)
(* "simulated" the copy of one simulation.                                 *)
(***************************************************************************)
Regions == {"caller", "working", "simulated"}


\* no copy: the "clone" is the list itself
deepCloneAliased(heap, src, dst) == [heap |-> heap, ref |-> src]

\* deepClone: structuredClone(obj); the copy lives in region dst
deepClone(heap, src, dst) ==
    [heap |-> [heap EXCEPT ![dst] = heap[src]], ref |-> dst]

\* Number-to-string of a time of h twentieths of a minute, then the regular
\* expression /(\d+)\s*minutes?/ on "... for <time> minutes" and parseInt: the
\* digits that stand right before " minutes" are the whole number when the
\* time is whole ("6 minutes") and the decimals otherwise ("5.5 minutes" gives
\* 5, "3.25 minutes" gives 25, "3.05 minutes" gives 5).
digitsBeforeMinutes(h) ==
    LET hundredths == (h % 20) * 5
    IN  IF hundredths = 0 THEN h \div 20
        ELSE IF hundredths % 10 = 0 THEN hundredths \div 10
        ELSE hundredths

\* extractDelayFromAction, in minutes; 5 when the text has no "<N> minutes"
extractDelayFromAction(action) ==
    IF action.text = "hold_for" THEN digitsBeforeMinutes(action.amount)
    ELSE defaultHoldMinutes

\* the size of the change of the total delay, whatever its direction
calculateDelayChange(newTrains, originalTrains) ==
    Abs(SumSeq([i \in 1..Len(originalTrains) |-> originalTrains[i].delay])
        - SumSeq([i \in 1..Len(newTrains) |-> newTrains[i].delay]))

\* calculateDelayReduction
calculateDelayReduction(newTrains, originalTrains) ==
    LET originalTotalDelay == SumSeq([i \in 1..Len(originalTrains) |-> originalTrains[i].delay])
        newTotalDelay == SumSeq([i \in 1..Len(newTrains) |-> newTrains[i].delay])
    IN  Max(0, originalTotalDelay - newTotalDelay)

\* trains.find((t) => t.id === id): the position of the first hit, 0 for none
findTrain(ts, id) ==
    LET hits == {i \in 1..Len(ts) : ts[i].id = id}
    IN  IF hits = {} THEN 0 ELSE CHOOSE i \in hits : \A j \in hits : i <= j

\* the switch of simulateRecommendation on the train at position i of region r
simulatedEffect(rec, heap, r, i) ==
    CASE rec.type = "hold" ->
            [heap EXCEPT ![r][i].delay = @ + minutes(extractDelayFromAction(rec.action))]
      [] rec.type = "reroute" ->
            [heap EXCEPT ![r][i].delay = @ + minutes(reroutingDelay)]
      [] rec.type = "priority_change" ->
            [heap EXCEPT ![r][i].priority = Max(1, @ - 1)]
      [] OTHER -> heap


\* feasibility that does not look at the new conflicts
isFeasibleByDelayOnly(totalDelayReduction, newConflicts) == totalDelayReduction > 0

\* feasible: totalDelayReduction > 0 && newConflicts.length === 0
isFeasible(totalDelayReduction, newConflicts) ==
    totalDelayReduction > 0 /\ Len(newConflicts) = 0

\* simulateRecommendation(recommendation, trains, stations); trains is the
\* list in region ref.  The result carries the heap after the call.
simulateRecommendation(rec, heap, ref, epoch) ==
    LET cl == deepClone(heap, ref, "simulated")
        i == findTrain(cl.heap[cl.ref], rec.targetTrain)
    IN  IF i = 0
        THEN [totalDelayReduction |-> 0, affectedTrains |-> << >>,
              newConflicts |-> << >>, feasible |-> FALSE, heap |-> cl.heap]
        ELSE
        LET result(h, totalDelayReduction, newConflicts) ==
                [totalDelayReduction |-> totalDelayReduction,
                 affectedTrains |-> << rec.targetTrain >>,
                 newConflicts |-> newConflicts,
                 feasible |-> isFeasible(totalDelayReduction, newConflicts),
                 heap |-> h]
            after(h) ==
                result(h,
                       CASE rec.type = "hold" -> calculateDelayReduction(h[cl.ref], h[ref])
                         [] rec.type = "reroute" -> rec.delayReduction
                         [] OTHER -> 0,
                       detectConflicts(h[cl.ref], << >>, epoch))
        IN  after(simulatedEffect(rec, cl.heap, cl.ref, i))

(***************************************************************************)
(* Batch optimizer                                                         *)
(***************************************************************************)

\* the weights of the resolver's calculateConflictPriority in the place of
\* those of optimizeSchedule
severityWeightOfResolver(severity) ==
    CASE severity = "critical" -> 10
      [] severity = "high" -> 7
      [] severity = "medium" -> 4
      [] severity = "low" -> 1

\* severityWeight of optimizeSchedule
severityWeight(severity) ==
    CASE severity = "critical" -> 4
      [] severity = "high" -> 3
      [] severity = "medium" -> 2
      [] severity = "low" -> 1

\* the sort key of optimizeSchedule
optimizePriority(conflict) == severityWeight(conflict.severity) * conflict.estimatedDelay

\* applyRecommendation of the optimization engine, on the list in region r
applyRecommendation(rec, heap, r) ==
    LET i == findTrain(heap[r], rec.targetTrain)
    IN  IF i = 0 THEN heap
        ELSE CASE rec.type = "hold" ->
                    [heap EXCEPT ![r][i].delay = @ + minutes(extractDelayFromAction(rec.action))]
               [] rec.type = "reroute" ->
                    [heap EXCEPT ![r][i].delay = @ + minutes(reroutingDelay)]
               [] rec.type = "priority_change" ->
                    [heap EXCEPT ![r][i].priority = Max(1, @ - 1)]
               [] OTHER -> heap

\* what one iteration of the loop of optimizeSchedule did: the conflict, the
\* type of the top-ranked recommendation ("none" without one), what its
\* simulation returned, and the working set before and after the iteration
OptimizeStepLog(conflict, top, simulation, before, after) ==
    [conflictId |-> conflict.id, top |-> top,
     totalDelayReduction |-> simulation.totalDelayReduction,
     newConflicts |-> Len(simulation.newConflicts),
     feasible |-> simulation.feasible,
     before |-> before, after |-> after]

\* an iteration that applies the top-ranked recommendation whether or not its
\* simulation is feasible
optimizeStepUnconditional(conflict, acc, ref, O) ==
    LET visited == [acc EXCEPT !.order = Append(@, conflict.id)]
        notSimulated == [totalDelayReduction |-> 0, newConflicts |-> << >>, feasible |-> FALSE]
        applied(bestRecommendation, simulation, after) ==
            [visited EXCEPT
                !.heap = after,
                !.resolvedConflicts = Append(@, conflict.id),
                !.totalDelayReduction = @ + simulation.totalDelayReduction,
                !.steps = Append(@, OptimizeStepLog(conflict, bestRecommendation.type,
                                        simulation, acc.heap[ref], after[ref]))]
        decide(bestRecommendation, simulation) ==
            applied(bestRecommendation, simulation,
                    applyRecommendation(bestRecommendation, simulation.heap, ref))
        try(bestRecommendation) ==
            decide(bestRecommendation,
                   simulateRecommendation(bestRecommendation, acc.heap, ref, 1))
        with(recommendations) ==
            IF Len(recommendations) = 0
            THEN [visited EXCEPT
                    !.steps = Append(@, OptimizeStepLog(conflict, "none", notSimulated,
                                            acc.heap[ref], acc.heap[ref]))]
            ELSE try(recommendations[1])
    IN  with(generateRecommendations(conflict, acc.heap[ref], O))

\* one iteration of the loop of optimizeSchedule; acc holds the heap, the
\* result so far, the conflicts visited so far and the log of the iterations
optimizeStep(conflict, acc, ref, O) ==
    LET visited == [acc EXCEPT !.order = Append(@, conflict.id)]
        notSimulated == [totalDelayReduction |-> 0, newConflicts |-> << >>, feasible |-> FALSE]
        applied(bestRecommendation, simulation, after) ==
            [visited EXCEPT
                !.heap = after,
                !.resolvedConflicts = Append(@, conflict.id),
                !.totalDelayReduction = @ + simulation.totalDelayReduction,
                !.steps = Append(@, OptimizeStepLog(conflict, bestRecommendation.type,
                                        simulation, acc.heap[ref], after[ref]))]
        decide(bestRecommendation, simulation) ==
            IF simulation.feasible
            THEN applied(bestRecommendation, simulation,
                         applyRecommendation(bestRecommendation, simulation.heap, ref))
            ELSE [visited EXCEPT
                    !.heap = simulation.heap,
                    !.steps = Append(@, OptimizeStepLog(conflict, bestRecommendation.type,
                                            simulation, acc.heap[ref], simulation.heap[ref]))]
        try(bestRecommendation) ==
            decide(bestRecommendation,
                   simulateRecommendation(bestRecommendation, acc.heap, ref, 1))
        with(recommendations) ==
            IF Len(recommendations) = 0
            THEN [visited EXCEPT
                    !.steps = Append(@, OptimizeStepLog(conflict, "none", notSimulated,
                                            acc.heap[ref], acc.heap[ref]))]
            ELSE try(recommendations[1])
    IN  with(generateRecommendations(conflict, acc.heap[ref], O))

RECURSIVE optimizeLoop(_, _, _, _)
optimizeLoop(sortedConflicts, acc, ref, O) ==
    IF sortedConflicts = << >> THEN acc
    ELSE optimizeLoop(Tail(sortedConflicts),
                      optimizeStep(Head(sortedConflicts), acc, ref, O), ref, O)

\* conflicts.sort(...) of optimizeSchedule: sorts the caller's array in place
optimizeSort(cs) ==
    sortDescending(cs, [i \in 1..Len(cs) |-> optimizePriority(cs[i])])

\* optimizeSchedule(trains, conflicts, stations), trains in region "caller"
optimizeSchedule(heap, cs, O) ==
    LET cl == deepClone(heap, "caller", "working")
        result(sortedConflicts, end) ==
            [optimizedTrains |-> end.heap[cl.ref],
             resolvedConflicts |-> end.resolvedConflicts,
             totalDelayReduction |-> end.totalDelayReduction,
             order |-> end.order,
             steps |-> end.steps,
             conflicts |-> sortedConflicts,
             heap |-> end.heap]
        loop(sortedConflicts) ==
            result(sortedConflicts,
                   optimizeLoop(sortedConflicts,
                                [heap |-> cl.heap, resolvedConflicts |-> << >>,
                                 totalDelayReduction |-> 0, order |-> << >>,
                                 steps |-> << >>],
                                cl.ref, O))
    IN  loop(optimizeSort(cs))

(***************************************************************************)
(* Conflict resolver (src/unnamed/part_000)                                *)
(***************************************************************************)
\* estimateArrivalTime of the resolver: 30 + delay - speed / 10
resolverArrivalTime(t) == minutes(30) + t.delay - 2 * t.speed

\* calculateMinimumDelayImpact(...).reduction, a number of minutes
calculateMinimumDelayImpact(trainToHold, otherTrains) ==
    LET holdPenalty == trainToHold.priority * 2
        benefitToOthers == SumSeq([i \in 1..Len(otherTrains) |-> otherTrains[i].priority])
    IN  minutes(Max(0, benefitToOthers - holdPenalty))

\* strategy "fcfs": hold the train that arrives second
fcfsStrategy(conflict, ts) ==
    LET conflictTrains == Filter(ts, LAMBDA t : involves(conflict, t))
    IN  IF Len(conflictTrains) < 2 THEN << >>
        ELSE
        LET sortedTrains == sortAscending(conflictTrains,
                                [i \in 1..Len(conflictTrains) |-> resolverArrivalTime(conflictTrains[i])])
            firstTrain == sortedTrains[1]
            secondTrain == sortedTrains[2]
        IN  << Recommendation("fcfs", conflict, "hold", secondTrain.id,
                              Action("hold_until_clear", 0), 70,
                              (conflict.estimatedDelay * 5) \div 10,
                              <<firstTrain.id, secondTrain.id>>) >>

\* strategy "priority": hold the train of lower raw priority
priorityStrategy(conflict, ts) ==
    LET conflictTrains == Filter(ts, LAMBDA t : involves(conflict, t))
    IN  IF Len(conflictTrains) < 2 THEN << >>
        ELSE
        LET sortedTrains == sortDescending(conflictTrains,
                                [i \in 1..Len(conflictTrains) |-> conflictTrains[i].priority])
            highPriorityTrain == sortedTrains[1]
            lowPriorityTrain == sortedTrains[2]
        IN  << Recommendation("priority", conflict, "hold", lowPriorityTrain.id,
                              Action("hold_to_allow", 0), 85,
                              (conflict.estimatedDelay * 7) \div 10,
                              <<highPriorityTrain.id, lowPriorityTrain.id>>) >>

\* strategy "min_delay": one candidate hold per train of the conflict
minDelayStrategy(conflict, ts) ==
    LET conflictTrains == Filter(ts, LAMBDA t : involves(conflict, t))
        n == Len(conflictTrains)
    IN  IF n < 2 THEN << >>
        ELSE
        LET recommendations ==
                [i \in 1..n |->
                    Recommendation("min_delay", conflict, "hold", conflictTrains[i].id,
                        Action("hold_for_optimal", 0), 80,
                        calculateMinimumDelayImpact(conflictTrains[i],
                            AtPositions(conflictTrains, (1..n) \ {i})),
                        conflict.trains)]
        IN  sortDescending(recommendations,
                [i \in 1..n |-> recommendations[i].delayReduction])

\* the strategies whose applicableConflictTypes include the type, in the
\* insertion order of the map (fcfs, priority, min_delay), and their output
strategyRecommendations(conflict, ts) ==
    (IF conflict.type \in {"crossing", "platform"}
     THEN fcfsStrategy(conflict, ts) ELSE << >>)
    \o (IF conflict.type \in {"crossing", "platform", "track"}
        THEN priorityStrategy(conflict, ts) ELSE << >>)
    \o (IF conflict.type \in {"crossing", "platform", "track", "signal"}
        THEN minDelayStrategy(conflict, ts) ELSE << >>)

\* a score without the urgency bonus of the conflict's severity
noSeverityBonus(severity) == 0

\* severityBonus[conflict.severity] || 0
severityBonus(severity) ==
    CASE severity = "critical" -> 15
      [] severity = "high" -> 10
      [] severity = "medium" -> 5
      [] OTHER -> 0

\* calculateRecommendationScore, in twentieths of a point
calculateRecommendationScore(rec, simulation, conflict) ==
    LET score == rec.confidence * 8
                 + Min(simulation.totalDelayReduction * 2, minutes(30))
                 + (IF simulation.feasible THEN 20 * 20 ELSE 0)
                 - Len(simulation.newConflicts) * 5 * 20
                 + severityBonus(conflict.severity) * 20
    IN  Max(0, Min(100 * 20, score))

\* allRecommendations.map(...): simulate and score each recommendation against
\* the list in region ref; acc holds the heap and the scored items so far
RECURSIVE scoreAll(_, _, _, _)
scoreAll(recs, conflict, acc, ref) ==
    IF recs = << >> THEN acc
    ELSE LET scored(simulation) ==
                 [heap |-> simulation.heap,
                  scored |-> Append(acc.scored,
                                [recommendation |-> Head(recs),
                                 simulation |->
                                    [totalDelayReduction |-> simulation.totalDelayReduction,
                                     newConflicts |-> Len(simulation.newConflicts),
                                     feasible |-> simulation.feasible],
                                 score |-> calculateRecommendationScore(Head(recs), simulation,
                                                                        conflict)])]
         IN  scoreAll(Tail(recs), conflict,
                      scored(simulateRecommendation(Head(recs), acc.heap, ref, 1)), ref)

\* resolveConflict(conflict, trains, stations), trains in region ref.  With
\* no recommendation at all, best is undefined and reading best.recommendation
\* throws a TypeError.
resolveConflict(conflict, heap, ref) ==
    LET pick(scoredRecommendations, after) ==
            IF Len(scoredRecommendations) = 0
            THEN [threw |-> TRUE, heap |-> after]
            ELSE [threw |-> FALSE,
                  primaryRecommendation |-> scoredRecommendations[1].recommendation,
                  alternativeRecommendations |->
                      [i \in 1..Min(2, Len(scoredRecommendations) - 1) |->
                          scoredRecommendations[i + 1].recommendation],
                  confidence |-> scoredRecommendations[1].score,
                  scoredRecommendations |-> scoredRecommendations,
                  heap |-> after]
        sorted(all) ==
            pick(sortDescending(all.scored, [i \in 1..Len(all.scored) |-> all.scored[i].score]),
                 all.heap)
    IN  sorted(scoreAll(strategyRecommendations(conflict, heap[ref]), conflict,
                        [heap |-> heap, scored |-> << >>], ref))

\* calculateConflictPriority
calculateConflictPriority(conflict) ==
    (CASE conflict.severity = "critical" -> 10
       [] conflict.severity = "high" -> 7
       [] conflict.severity = "medium" -> 4
       [] conflict.severity = "low" -> 1
       [] OTHER -> 1) * conflict.estimatedDelay

\* applyRecommendationToTrains, on the list in region r
applyRecommendationToTrains(rec, heap, r) ==
    LET i == findTrain(heap[r], rec.targetTrain)
    IN  IF i = 0 THEN heap
        ELSE CASE rec.type = "hold" -> [heap EXCEPT ![r][i].delay = @ + minutes(5)]
               [] rec.type = "reroute" -> [heap EXCEPT ![r][i].delay = @ + minutes(10)]
               [] rec.type = "priority_change" ->
                    [heap EXCEPT ![r][i].priority = Max(1, @ - 1)]
               [] OTHER -> heap

\* JSON.parse(JSON.stringify(trains)): the fields of a train are strings and
\* finite numbers, which the round trip keeps; the copy lives in region dst
jsonCloneTrains(heap, src, dst) ==
    [heap |-> [heap EXCEPT ![dst] = heap[src]], ref |-> dst]

\* one iteration of the loop of resolveMultipleConflicts; originalIds are the
\* ids of the conflicts passed in
resolveStep(conflict, acc, ref, originalIds) ==
    LET visited == [acc EXCEPT !.order = Append(@, conflict.id)]
        record(rec, applied, newConflicts) ==
            [visited EXCEPT
                !.heap = applied,
                !.resolutions = Append(@, [conflictId |-> conflict.id,
                                           recommendation |-> rec,
                                           priority |-> calculateConflictPriority(conflict)]),
                !.totalDelayReduction = @ + rec.delayReduction,
                !.affectedTrains = @ \cup {rec.affectedTrains[i] : i \in 1..Len(rec.affectedTrains)},
                !.newConflictsCreated = @ + Cardinality({i \in 1..Len(newConflicts) :
                                                newConflicts[i].id \notin originalIds})]
        apply(rec, applied) ==
            record(rec, applied, detectConflicts(applied[ref], << >>, 2))
        step(resolution) ==
            IF resolution.threw THEN [visited EXCEPT !.threw = TRUE, !.heap = resolution.heap]
            ELSE IF resolution.confidence * 10 > 5 * 20
            THEN apply(resolution.primaryRecommendation,
                       applyRecommendationToTrains(resolution.primaryRecommendation,
                                                   resolution.heap, ref))
            ELSE [visited EXCEPT !.heap = resolution.heap]
    IN  step(resolveConflict(conflict, acc.heap, ref))

\* the loop stops at the first conflict whose resolution throws
RECURSIVE resolveLoop(_, _, _, _)
resolveLoop(prioritizedConflicts, acc, ref, originalIds) ==
    IF prioritizedConflicts = << >> \/ acc.threw THEN acc
    ELSE resolveLoop(Tail(prioritizedConflicts),
                     resolveStep(Head(prioritizedConflicts), acc, ref, originalIds),
                     ref, originalIds)

\* conflicts.sort(...) of resolveMultipleConflicts: sorts the caller's array in place
resolveSort(cs) ==
    sortDescending(cs, [i \in 1..Len(cs) |-> calculateConflictPriority(cs[i])])

\* resolveMultipleConflicts(conflicts, trains, stations), trains in region "caller"
resolveMultipleConflicts(heap, cs) ==
    LET cl == jsonCloneTrains(heap, "caller", "working")
        result(prioritizedConflicts, end) ==
            [threw |-> end.threw,
             resolutions |-> end.resolutions,
             totalDelayReduction |-> end.totalDelayReduction,
             affectedTrains |-> end.affectedTrains,
             newConflictsCreated |-> end.newConflictsCreated,
             order |-> end.order,
             workingTrains |-> end.heap[cl.ref],
             conflicts |-> prioritizedConflicts,
             heap |-> end.heap]
        loop(prioritizedConflicts) ==
            result(prioritizedConflicts,
                   resolveLoop(prioritizedConflicts,
                               [heap |-> cl.heap, threw |-> FALSE, resolutions |-> << >>,
                                totalDelayReduction |-> 0, affectedTrains |-> {},
                                newConflictsCreated |-> 0, order |-> << >>],
                               cl.ref, {cs[i].id : i \in 1..Len(cs)}))
    IN  loop(resolveSort(cs))

(***************************************************************************)
(* KPI functions (OptimizationUtils, PerformanceMonitor).  A KPI that is a *)
(* quotient is an exact fraction of positive denominator.                  *)
(***************************************************************************)
Ratio(num, den) == [num |-> num, den |-> den]

onTimeLimit == 5
conflictPenalty == 5

\* OptimizationUtils.calculateSystemEfficiency, in percent
calculateSystemEfficiency(ts) ==
    IF Len(ts) > 0
    THEN Ratio(Len(Filter(ts, LAMBDA t : t.delay <= minutes(onTimeLimit))) * 100, Len(ts))
    ELSE Ratio(0, 1)

\* OptimizationUtils.calculateAverageDelay, in twentieths of a minute
calculateAverageDelay(ts) ==
    IF Len(ts) > 0 THEN Ratio(SumSeq([i \in 1..Len(ts) |-> ts[i].delay]), Len(ts))
    ELSE Ratio(0, 1)

\* OptimizationUtils.calculateThroughput, over the default window of one hour
calculateThroughput(ts) == Len(Filter(ts, LAMBDA t : t.status # "cancelled"))

\* a system efficiency that is not floored at 0
unflooredSystemEfficiency(ts, cs) ==
    IF Len(ts) > 0
    THEN Ratio(Len(Filter(ts, LAMBDA t : t.delay <= minutes(onTimeLimit))) * 100
                   - Len(cs) * conflictPenalty * Len(ts), Len(ts))
    ELSE Ratio(0 - Len(cs) * conflictPenalty, 1)

\* PerformanceMonitor.calculateSystemEfficiency(trains, conflicts)
monitorSystemEfficiency(ts, cs) ==
    LET floored(baseEfficiency) ==
            Ratio(Max(0, baseEfficiency.num - Len(cs) * conflictPenalty * baseEfficiency.den),
                  baseEfficiency.den)
    IN  floored(IF Len(ts) > 0
                THEN Ratio(Len(Filter(ts, LAMBDA t : t.delay <= minutes(onTimeLimit))) * 100,
                           Len(ts))
                ELSE Ratio(0, 1))

(***************************************************************************)
(* Inputs of the engine                                                    *)
(***************************************************************************)
Profile(type, priority, cur, next, status, delay, speed) ==
    Train("", type, priority, cur, next, status, delay, speed)

\* Trains a caller can hold.  Delays are multiples of half a minute.
\*   an express bound for S2 that is not at a station
\*   a freight train half a minute behind it
\*   a freight train standing at S1, bound for S2
\*   a suburban train whose current and next station are both S1
\*   a cancelled express
\*   a special train of low raw priority, two minutes late
TrainPool ==
    { Profile("express", 9, NoStation, "S2", "on_time", 0, 60),
      Profile("freight", 3, NoStation, "S2", "delayed", 10, 60),
      Profile("freight", 5, "S1", "S2", "on_time", 0, 60),
      Profile("suburban", 5, "S1", "S1", "delayed", 120, 90),
      Profile("express", 9, "S1", "S2", "cancelled", 0, 60),
      Profile("special", 2, NoStation, "S2", "delayed", 40, 60) }

\* the trains of the lists that come with a hand-made conflict list
BatchPool ==
    { Profile("express", 9, NoStation, "S2", "on_time", 0, 60),
      Profile("freight", 5, "S1", "S2", "on_time", 0, 60),
      Profile("special", 2, NoStation, "S2", "delayed", 40, 60) }

\* all lists of at most n different trains of the pool; the i-th train has the
\* i-th id
TrainLists(pool, n) ==
    { [i \in 1..Len(ps) |-> [ps[i] EXCEPT !.id = TrainIds[i]]] :
        ps \in { q \in UNION {[1..k -> pool] : k \in 0..n} :
                    \A i, j \in 1..Len(q) : i # j => q[i] # q[j] } }

\* Conflicts a caller can pass to the batch calls: any type and severity, and
\* trains that need not be in the train list ("T9" never is).
UserConflict(n, type, a, b, location, severity, estimatedDelay) ==
    [Conflict(type, a, b, location, severity, estimatedDelay) EXCEPT !.id = <<type, a, b, 0 - 1, n>>]

ConflictPool ==
    { UserConflict(1, "crossing", "T1", "T2", "S2", "critical", minutes(5)),
      UserConflict(2, "platform", "T1", "T2", "S1", "low", minutes(30)),
      UserConflict(3, "track", "T1", "T9", "TRK1", "high", minutes(8)),
      UserConflict(4, "signal", "T2", "T3", "SIG1", "medium", minutes(5)) }

ConflictLists == UNION {[1..k -> ConflictPool] : k \in 1..MaxConflicts}

\* Track lists of the section
TrackLists ==
    { << >>,
      << [id |-> "TRK1", fromStation |-> "S2", toStation |-> "S1"] >> }

\* Recommendations a caller can simulate besides the generated ones
RecommendationPool ==
    LET c == UserConflict(1, "crossing", "T1", "T2", "S2", "critical", minutes(5))
    IN  { Recommendation("user", c, "proceed", "T1", Action("proceed", 0), 90, 0, <<"T1">>),
          Recommendation("user", c, "priority_change", "T1", Action("reduce_priority", 0), 65,
                         minutes(2), <<"T1", "T2">>),
          Recommendation("user", c, "reroute", "T2", Action("reroute_via", 0), 72,
                         minutes(3), <<"T2">>),
          Recommendation("user", c, "hold", "T1", Action("hold_for", minutes(4)), 85,
                         minutes(5), <<"T1", "T2">>),
          Recommendation("user", c, "hold", "T9", Action("hold_for", minutes(4)), 85,
                         minutes(5), <<"T9", "T1">>) }

Options == [allowRerouting : BOOLEAN, allowPriorityOverride : BOOLEAN]

\* the heap at the start of a call: only the caller's list exists
callerHeap == [r \in Regions |-> IF r = "caller" THEN trains ELSE << >>]

(***************************************************************************)
(* RealTimeEngine (src/lib/real-time-engine.ts): the running flag, the     *)
(* update timer and the events of the EventEmitter it extends.  A timer is *)
(* named by the handle setInterval returned, 0 standing for null.  The     *)
(* maps of trains, signals and conflicts that the timer callback refreshes *)
(* are private to the engine and read by none of the operations below.     *)
(***************************************************************************)
noTimer == 0

\* the engine as the module constructs it: stopped, no timer, no listener.
\* timers are the intervals set and not cleared, events the events emitted,
\* notified the listener calls made, last the latest call or timer callback.
newEngine ==
    [isRunning |-> FALSE, updateInterval |-> noTimer, timers |-> {}, nextTimer |-> 1,
     events |-> << >>, listeners |-> << >>, notified |-> << >>, inits |-> 0,
     last |-> [call |-> "none"]]

\* EventEmitter.emit: the listeners of the event registered so far are called
\* in the order of their registration
emit(e, event) ==
    LET heard == Filter(e.listeners, LAMBDA l : l.event = event)
    IN  [e EXCEPT !.events = Append(@, event),
                  !.notified = @ \o [k \in 1..Len(heard) |->
                                        [listener |-> heard[k], at |-> Len(e.events) + 1]]]

\* EventEmitter.on
on(e, event, owner) ==
    [e EXCEPT !.listeners = Append(@, [event |-> event, owner |-> owner])]

\* a start that sets a timer whether or not the engine is running
startUnguarded(e) ==
    emit([e EXCEPT !.isRunning = TRUE,
                   !.updateInterval = e.nextTimer,
                   !.timers = @ \cup {e.nextTimer},
                   !.nextTimer = @ + 1],
         "system:started")

\* RealTimeEngine.start
start(e) ==
    IF e.isRunning THEN e
    ELSE emit([e EXCEPT !.isRunning = TRUE,
                        !.updateInterval = e.nextTimer,
                        !.timers = @ \cup {e.nextTimer},
                        !.nextTimer = @ + 1],
              "system:started")

\* RealTimeEngine.stop
stop(e) ==
    IF ~e.isRunning THEN e
    ELSE emit(IF e.updateInterval # noTimer
              THEN [e EXCEPT !.isRunning = FALSE,
                             !.timers = @ \ {e.updateInterval},
                             !.updateInterval = noTimer]
              ELSE [e EXCEPT !.isRunning = FALSE],
              "system:stopped")

\* processRealTimeUpdates, the callback of the timer
processRealTimeUpdates(e) == emit(e, "data:updated")

\* initializeSystem of startup.ts: the engine is started, then the three
\* listeners are registered
initializeSystem(e) ==
    on(on(on(start([e EXCEPT !.inits = @ + 1]),
             "system:started", e.inits + 1),
          "data:updated", e.inits + 1),
       "train:updated", e.inits + 1)

\* shutdownSystem of startup.ts
shutdownSystem(e) == stop(e)

\* what a call or a timer callback found when it began
called(call, e) ==
    [call |-> call, wasRunning |-> e.isRunning,
     before |-> [isRunning |-> e.isRunning, updateInterval |-> e.updateInterval,
                 timers |-> e.timers, events |-> e.events,
                 listeners |-> e.listeners, notified |-> e.notified]]

(***************************************************************************)
(* Operations of the engine.  A caller holds a train list and a conflict   *)
(* list, may run the detector to fill the conflict list, and then makes    *)
(* one call whose result is kept in out.                                   *)
(***************************************************************************)
simVars == <<kpis, scenarios, results, run, engine>>
vars == <<opts, trains, conflicts, out, kpis, scenarios, results, run, engine>>

\* no call has returned a result yet, except possibly the detector
ready == out.op \in {"none", "detect"}

\* the caller runs the detector and keeps the list
DetectConflicts ==
    /\ out.op = "none"
    /\ \E tracks \in TrackLists :
        \E found \in {detectConflicts(trains, tracks, 0)} :
            /\ conflicts' = found
            /\ out' = [op |-> "detect", tracks |-> tracks, conflicts |-> found]
            /\ UNCHANGED <<opts, trains, simVars>>

\* generateRecommendations for a conflict of the caller's list
GenerateRecommendations ==
    /\ ready
    /\ \E i \in 1..Len(conflicts) :
        /\ out' = [op |-> "generate", conflict |-> conflicts[i],
                   recommendations |-> generateRecommendations(conflicts[i], trains, opts)]
        /\ UNCHANGED <<opts, trains, conflicts, simVars>>

\* the recommendations generated for the caller's conflicts
generated ==
    UNION { LET recs == generateRecommendations(conflicts[i], trains, opts)
            IN  {recs[j] : j \in 1..Len(recs)} : i \in 1..Len(conflicts) }

\* simulateRecommendation for a generated or a hand-made recommendation
SimulateRecommendation ==
    /\ ready
    /\ \E rec \in generated \cup RecommendationPool :
        \E r \in {simulateRecommendation(rec, callerHeap, "caller", 1)} :
            /\ trains' = r.heap["caller"]
            /\ out' = [op |-> "simulate", recommendation |-> rec,
                       totalDelayReduction |-> r.totalDelayReduction,
                       affectedTrains |-> r.affectedTrains,
                       newConflicts |-> r.newConflicts,
                       feasible |-> r.feasible,
                       simulatedTrains |-> r.heap["simulated"]]
            /\ UNCHANGED <<opts, conflicts, simVars>>

\* optimizeSchedule on the caller's trains and conflicts
OptimizeSchedule ==
    /\ ready
    /\ \E r \in {optimizeSchedule(callerHeap, conflicts, opts)} :
        /\ trains' = r.heap["caller"]
        /\ conflicts' = r.conflicts
        /\ out' = [op |-> "optimize", input |-> conflicts,
                   optimizedTrains |-> r.optimizedTrains,
                   resolvedConflicts |-> r.resolvedConflicts,
                   totalDelayReduction |-> r.totalDelayReduction,
                   order |-> r.order, steps |-> r.steps]
        /\ UNCHANGED <<opts, simVars>>

\* resolveMultipleConflicts on the caller's trains and conflicts
ResolveMultipleConflicts ==
    /\ ready
    /\ \E r \in {resolveMultipleConflicts(callerHeap, conflicts)} :
        /\ trains' = r.heap["caller"]
        /\ conflicts' = r.conflicts
        /\ out' = IF r.threw
                  THEN [op |-> "resolve", threw |-> TRUE, input |-> conflicts,
                        order |-> r.order]
                  ELSE [op |-> "resolve", threw |-> FALSE, input |-> conflicts,
                        resolutions |-> r.resolutions,
                        totalDelayReduction |-> r.totalDelayReduction,
                        affectedTrains |-> r.affectedTrains,
                        newConflictsCreated |-> r.newConflictsCreated,
                        workingTrains |-> r.workingTrains,
                        order |-> r.order]
        /\ UNCHANGED <<opts, simVars>>

\* the KPIs of the caller's snapshot: punctuality, average delay and the
\* system efficiency PerformanceMonitor.recordMetrics stores
RecordMetrics ==
    /\ ready
    /\ out' = [op |-> "metrics",
               punctuality |-> calculateSystemEfficiency(trains),
               averageDelay |-> calculateAverageDelay(trains),
               systemEfficiency |-> monitorSystemEfficiency(trains, conflicts)]
    /\ UNCHANGED <<opts, trains, conflicts, simVars>>

\* a caller asks the resolver about one conflict of its list
ResolveConflict ==
    /\ ready
    /\ \E i \in 1..Len(conflicts) :
        \E r \in {resolveConflict(conflicts[i], callerHeap, "caller")} :
            /\ trains' = r.heap["caller"]
            /\ out' = IF r.threw
                      THEN [op |-> "resolveConflict", threw |-> TRUE, conflict |-> conflicts[i]]
                      ELSE [op |-> "resolveConflict", threw |-> FALSE,
                            conflict |-> conflicts[i],
                            primaryRecommendation |-> r.primaryRecommendation,
                            alternativeRecommendations |-> r.alternativeRecommendations,
                            confidence |-> r.confidence,
                            scoredRecommendations |-> r.scoredRecommendations]
    /\ UNCHANGED <<opts, conflicts, simVars>>

\* the simulation engine is not used
noSimulation ==
    /\ kpis = [punctuality |-> [num |-> 100, den |-> 1]]
    /\ scenarios = << >>
    /\ results = << >>
    /\ run = [pc |-> "idle"]
    /\ engine = newEngine

\* Detection, recommendation and simulation on the lists of TrainPool
Init ==
    /\ opts \in Options
    /\ trains \in TrainLists(TrainPool, MaxTrains)
    /\ conflicts = << >>
    /\ out = [op |-> "none"]
    /\ noSimulation

Next ==
    \/ DetectConflicts
    \/ GenerateRecommendations
    \/ SimulateRecommendation
    \/ RecordMetrics

Spec == Init /\ [][Next]_vars

\* The batch calls, on the lists of BatchPool with a hand-made or a detected
\* conflict list
BatchInit ==
    /\ opts \in Options
    /\ trains \in TrainLists(BatchPool, MaxTrains)
    /\ conflicts \in ConflictLists \cup {<< >>}
    /\ out = [op |-> "none"]
    /\ noSimulation

BatchNext ==
    \/ DetectConflicts
    \/ GenerateRecommendations
    \/ SimulateRecommendation
    \/ OptimizeSchedule
    \/ ResolveMultipleConflicts
    \/ ResolveConflict

BatchSpec == BatchInit /\ [][BatchNext]_vars

(***************************************************************************)
(* Simulation engine                                                       *)
(*                                                                         *)
(* A SimulationState is a record of trains, stations, tracks, conflicts,   *)
(* timestamp and kpis.  A timestamp is either a Date object or the ISO     *)
(* string JSON.stringify writes for it; only a Date has getTime().  A KPI  *)
(* that is a quotient is kept as an exact fraction.                        *)
(***************************************************************************)
\* a > b, for fractions of positive denominator
greater(a, b) == a.num * b.den > b.num * a.den

DateOf(instant) == [kind |-> "Date", instant |-> instant]

signalFailureDelay == 10
trackBlockageDelay == 15
defaultHoldDuration == 5
holdPenalty == 5
proceedGain == 2
reroutePenalty == 10
autoApplyConfidence == 80
defaultDuration == 120
kpiInterval == 10
aiAcceptanceRate == 85

\* calculateCurrentKPIs(state)
calculateCurrentKPIs(state) ==
    [punctuality |-> calculateSystemEfficiency(state.trains),
     averageDelay |-> calculateAverageDelay(state.trains),
     throughput |-> calculateThroughput(state.trains),
     conflictsResolved |-> Len(Filter(state.conflicts, LAMBDA c : c.severity = "low")),
     aiAcceptanceRate |-> aiAcceptanceRate]

\* JSON.parse(JSON.stringify(state)): a fresh copy of the plain data, in which
\* a Date has become its ISO string and a string stays a string
jsonRoundTrip(state) ==
    [state EXCEPT !.timestamp = [kind |-> "string", instant |-> @.instant]]

\* whether timestamp.getTime is a function
hasGetTime(timestamp) == timestamp.kind = "Date"

\* the options of the engine the simulation engine constructs
defaultOptions == [allowRerouting |-> TRUE, allowPriorityOverride |-> FALSE]

TimelineEvent(timestamp, type, affectedEntities, delayChange, created, resolved) ==
    [timestamp |-> timestamp, type |-> type, affectedEntities |-> affectedEntities,
     delayChange |-> delayChange, conflictsCreated |-> created,
     conflictsResolved |-> resolved]

\* position of the first train with the id, 0 for undefined
findIndex(ts, id) ==
    IF \E i \in 1..Len(ts) : ts[i].id = id
    THEN CHOOSE i \in 1..Len(ts) : ts[i].id = id /\ \A j \in 1..(i - 1) : ts[j].id # id
    ELSE 0

\* ScenarioModification; a parameter that is 0 is one that is absent or falsy
Modification(type, targetId, delay, duration, priority, appliedAt) ==
    [type |-> type, targetId |-> targetId,
     parameters |-> [delay |-> delay, duration |-> duration, priority |-> priority],
     appliedAt |-> appliedAt]

\* applyModification(state, modification, timestamp): the state after it and
\* the timeline event it returns
applyModification(state, modification, timestamp) ==
    LET ts == state.trains
        i == findIndex(ts, modification.targetId)
        p == modification.parameters
        none == [state |-> state,
                 event |-> TimelineEvent(timestamp, "modification_applied", << >>, 0, 0, 0)]
        one(t, d) == [state |-> [state EXCEPT !.trains[i] = t],
                      event |-> TimelineEvent(timestamp, "modification_applied",
                                              <<t.id>>, d, 0, 0)]
        many(hit(_), d) ==
            LET n == Len(Filter(ts, hit))
            IN  [state |-> [state EXCEPT !.trains =
                               [k \in 1..Len(ts) |->
                                   IF hit(ts[k]) THEN [ts[k] EXCEPT !.delay = @ + d]
                                   ELSE ts[k]]],
                 event |-> TimelineEvent(timestamp, "modification_applied",
                               [k \in 1..n |-> Filter(ts, hit)[k].id], n * d, 0, 0)]
    IN  CASE modification.type = "delay_injection" ->
               IF i = 0 THEN none
               ELSE one([ts[i] EXCEPT !.delay = @ + p.delay, !.status = "delayed"], p.delay)
          [] modification.type = "train_hold" ->
               IF i = 0 THEN none
               ELSE LET holdDuration == IF p.duration # 0 THEN p.duration
                                        ELSE minutes(defaultHoldDuration)
                    IN  one([ts[i] EXCEPT !.delay = @ + holdDuration, !.status = "delayed"],
                            holdDuration)
          [] modification.type = "priority_change" ->
               IF i = 0 THEN none
               ELSE LET newPriority == IF p.priority # 0 THEN p.priority
                                       ELSE ts[i].priority + 1
                    IN  one([ts[i] EXCEPT !.priority = Max(1, Min(10, newPriority))], 0)
          [] modification.type = "signal_failure" ->
               IF \E s \in 1..Len(state.stations) : state.stations[s] = modification.targetId
               THEN many(LAMBDA t : t.cur = modification.targetId,
                         minutes(signalFailureDelay))
               ELSE none
          [] modification.type = "track_blockage" ->
               many(LAMBDA t : t.next = modification.targetId, minutes(trackBlockageDelay))
          [] OTHER -> none

\* the modifications of a tick, applied one after the other
RECURSIVE applyModifications(_, _, _)
applyModifications(state, mods, timestamp) ==
    IF mods = << >> THEN [state |-> state, events |-> << >>]
    ELSE LET first == applyModification(state, Head(mods), timestamp)
             rest == applyModifications(first.state, Tail(mods), timestamp)
         IN  [state |-> rest.state, events |-> <<first.event>> \o rest.events]

\* SimulationEngine.applyRecommendation(state, recommendation, timestamp)
applyRecommendationToState(state, recommendation) ==
    LET i == findIndex(state.trains, recommendation.targetTrain)
    IN  IF i = 0 THEN state
        ELSE CASE recommendation.type = "hold" ->
                    [state EXCEPT !.trains[i].delay = @ + minutes(holdPenalty)]
               [] recommendation.type = "proceed" ->
                    [state EXCEPT !.trains[i].delay = Max(0, @ - minutes(proceedGain))]
               [] recommendation.type = "reroute" ->
                    [state EXCEPT !.trains[i].delay = @ + minutes(reroutePenalty)]
               [] recommendation.type = "priority_change" ->
                    [state EXCEPT !.trains[i].priority = Max(1, @ - 1)]
               [] OTHER -> state

\* the loop over newConflicts of a tick: a conflict whose id is not yet in
\* conflicts is recorded, its recommendations are generated against the
\* current trains, and an event is pushed
RECURSIVE processNewConflicts(_, _, _)
processNewConflicts(acc, newConflicts, timestamp) ==
    IF newConflicts = << >> THEN acc
    ELSE LET conflict == Head(newConflicts)
             known == \E k \in 1..Len(acc.conflicts) : acc.conflicts[k].id = conflict.id
             next ==
                 IF known THEN acc
                 ELSE [acc EXCEPT
                         !.conflicts = Append(@, conflict),
                         !.recommendations =
                             @ \o generateRecommendations(conflict, acc.currentState.trains,
                                                          defaultOptions),
                         !.timeline = Append(@,
                             TimelineEvent(timestamp, "conflict_detected", conflict.trains,
                                           conflict.estimatedDelay, 1, 0))]
         IN  processNewConflicts(next, Tail(newConflicts), timestamp)

\* the loop over highConfidenceRecs of a tick
RECURSIVE autoApply(_, _, _)
autoApply(acc, recs, timestamp) ==
    IF recs = << >> THEN acc
    ELSE LET rec == Head(recs)
             next == [acc EXCEPT
                        !.currentState = applyRecommendationToState(@, rec),
                        !.timeline = Append(@,
                            TimelineEvent(timestamp, "recommendation_applied",
                                          <<rec.targetTrain>>, 0 - rec.delayReduction, 0, 1))]
         IN  autoApply(next, Tail(recs), timestamp)

\* one pass of the body of the loop of runSimulation, at run.minute.
\* updateTrainPositions changes coordinates only, which nothing else reads.
tickBody(r, scenario) ==
    LET minute == r.minute
        currentTime == DateOf(scenario.baselineState.timestamp.instant + minute)
        kpisUpdated(r3) ==
            IF minute % kpiInterval = 0
            THEN [r3 EXCEPT !.currentState.kpis = calculateCurrentKPIs(r3.currentState),
                            !.minute = minute + 1]
            ELSE [r3 EXCEPT !.minute = minute + 1]
        recommendationsApplied(r2) ==
            kpisUpdated(autoApply(r2,
                Filter(r2.recommendations, LAMBDA rec : rec.confidence > autoApplyConfidence),
                currentTime))
        conflictsProcessed(r1) ==
            recommendationsApplied(processNewConflicts(r1,
                detectConflicts(r1.currentState.trains, r1.currentState.tracks, minute),
                currentTime))
        modificationsApplied(modified) ==
            conflictsProcessed([r EXCEPT !.currentState = modified.state,
                                         !.timeline = @ \o modified.events])
    IN  modificationsApplied(applyModifications(r.currentState,
            Filter(r.pendingModifications, LAMBDA m : m.appliedAt = minute), currentTime))

\* success, as the result literal computes it
simulationSuccess(recorded, baselineKPIs, finalKPIs) ==
    Len(recorded) = 0 \/ greater(finalKPIs.punctuality, baselineKPIs.punctuality)

\* the SimulationResult built after the loop
simulationResult(r) ==
    LET finalKPIs == calculateCurrentKPIs(r.currentState)
    IN  [scenarioId |-> r.scenarioId,
         finalState |-> r.currentState,
         timeline |-> r.timeline,
         kpiComparison |-> [baseline |-> r.baselineKPIs, simulated |-> finalKPIs],
         conflicts |-> r.conflicts,
         recommendations |-> r.recommendations,
         success |-> simulationSuccess(r.conflicts, r.baselineKPIs, finalKPIs)]

\* the state of a run of the scenario before the first pass of the loop
startRun(scenarioId, scenario) ==
    LET started(currentState) ==
            [pc |-> "loop", scenarioId |-> scenarioId, minute |-> 0,
             timeline |-> << >>, conflicts |-> << >>,
             recommendations |-> << >>,
             currentState |-> currentState,
             baselineKPIs |-> currentState.kpis,
             pendingModifications |->
                 sortAscending(scenario.modifications,
                     [i \in 1..Len(scenario.modifications) |->
                         scenario.modifications[i].appliedAt])]
    IN  started(jsonRoundTrip(scenario.baselineState))

\* the loop of runSimulation from the state r on, to its end
RECURSIVE runLoop(_, _)
runLoop(r, scenario) ==
    IF r.minute > scenario.duration THEN r
    ELSE runLoop(tickBody(r, scenario), scenario)

\* await runSimulation(scenario.id) inside performWhatIfAnalysis: the call
\* throws in its first pass when the baseline timestamp has no getTime
awaitedRun(scenario) ==
    IF scenario.duration >= 0 /\ ~hasGetTime(scenario.baselineState.timestamp)
    THEN [threw |-> TRUE]
    ELSE [threw |-> FALSE,
          result |-> simulationResult(runLoop(startRun(scenario.id, scenario), scenario))]

\* a - b for fractions of positive denominator
minus(a, b) == Ratio(a.num * b.den - b.num * a.den, a.den * b.den)

\* a + b for fractions of positive denominator
plus(a, b) == Ratio(a.num * b.den + b.num * a.den, a.den * b.den)

\* calculateScenarioScore over the improvements of the comparison (lines
\* 205-210), in two-hundredths of a point: the weights 0.4, 0.3, 0.2 and 0.1
\* are 80, 60, 40 and 20, and a minute of delay is 20 units
calculateScenarioScore(kpiComparison) ==
    LET sum(punctuality, averageDelay, throughput, conflictsResolved) ==
            Ratio(80 * punctuality.num * averageDelay.den
                    + 3 * averageDelay.num * punctuality.den
                    + (40 * throughput + 20 * conflictsResolved)
                        * punctuality.den * averageDelay.den,
                  punctuality.den * averageDelay.den)
    IN  sum(minus(kpiComparison.simulated.punctuality, kpiComparison.baseline.punctuality),
            minus(kpiComparison.baseline.averageDelay, kpiComparison.simulated.averageDelay),
            kpiComparison.simulated.throughput - kpiComparison.baseline.throughput,
            kpiComparison.simulated.conflictsResolved
                - kpiComparison.baseline.conflictsResolved)

\* results.reduce((best, current) => ...) without an initial value: the first
\* result, replaced by each later result of strictly greater score
RECURSIVE bestOf(_, _)
bestOf(best, rest) ==
    IF rest = << >> THEN best
    ELSE bestOf(IF greater(calculateScenarioScore(Head(rest).kpiComparison),
                           calculateScenarioScore(best.kpiComparison))
                THEN Head(rest) ELSE best,
                Tail(rest))

\* the sum of the scores of the results, as a fraction
RECURSIVE sumOfScores(_)
sumOfScores(rs) ==
    IF rs = << >> THEN Ratio(0, 1)
    ELSE plus(calculateScenarioScore(Head(rs).kpiComparison), sumOfScores(Tail(rs)))

\* calculateRecommendationConfidence, in hundredths.  improvement is
\* (bestScore - averageScore) / |averageScore|; a zero average makes it 0 / 0,
\* which is NaN and stays NaN through Math.max and Math.min, or an infinity,
\* which the bounds cut off
calculateRecommendationConfidence(rs, bestResult) ==
    LET number(c) == [kind |-> "number", value |-> c]
        clamp(c) == IF greater(Ratio(50, 1), c) THEN number(Ratio(50, 1))
                    ELSE IF greater(c, Ratio(95, 1)) THEN number(Ratio(95, 1))
                    ELSE number(c)
        confidence(bestScore, total) ==
            LET gain == bestScore.num * total.den * Len(rs) - total.num * bestScore.den
            IN  IF total.num = 0
                THEN IF gain = 0 THEN [kind |-> "NaN"]
                     ELSE IF gain > 0 THEN number(Ratio(95, 1)) ELSE number(Ratio(50, 1))
                ELSE clamp(Ratio(70 * bestScore.den * Abs(total.num) + 30 * gain,
                                 bestScore.den * Abs(total.num)))
    IN  confidence(calculateScenarioScore(bestResult.kpiComparison), sumOfScores(rs))

\* the runs of performWhatIfAnalysis, in the order of its scenarios: the
\* results so far, until a run throws
RECURSIVE runAll(_, _)
runAll(pending, done) ==
    LET continue(awaited) ==
            IF awaited.threw THEN [threw |-> TRUE, results |-> done]
            ELSE runAll(Tail(pending), Append(done, awaited.result))
    IN  IF pending = << >> THEN [threw |-> FALSE, results |-> done]
        ELSE continue(awaitedRun(Head(pending)))

\* what performWhatIfAnalysis returns from the results of its runs
whatIfAnalysis(rs) ==
    LET analysis(bestResult) ==
            [recommended |-> bestResult.scenarioId,
             confidence |-> calculateRecommendationConfidence(rs, bestResult)]
    IN  analysis(bestOf(Head(rs), Tail(rs)))

(***************************************************************************)
(* Inputs of the simulation engine                                         *)
(***************************************************************************)
\* the trains of a simulated section: an express on time and a freight train
\* six minutes late, both bound for S2
SimPool ==
    { Profile("express", 9, NoStation, "S2", "on_time", 0, 60),
      Profile("freight", 3, NoStation, "S2", "delayed", 120, 60) }

SimStations == <<"S1", "S2">>
SimTracks == << [id |-> "TRK1", fromStation |-> "S2", toStation |-> "S1"] >>

\* what the caller's dashboard shows as punctuality, in percent
PunctualityShown == {0, 100}

ModificationLists ==
    { << >>,
      << Modification("train_hold", "T1", 0, 0, 0, 1),
         Modification("delay_injection", "T1", minutes(6), 0, 0, 0) >> }

\* the alternatives of a what-if question: none, or one list of modifications
AlternativeLists ==
    {<< >>} \cup {<< modifications >> : modifications \in ModificationLists}

\* the state the caller passes as baselineState
callerState ==
    [trains |-> trains, stations |-> SimStations, tracks |-> SimTracks,
     conflicts |-> conflicts, timestamp |-> DateOf(0), kpis |-> kpis]

(***************************************************************************)
(* Operations of the simulation engine.  A scenario id is its position in  *)
(* scenarios; every other id is one no scenario has.                       *)
(***************************************************************************)
idle == run.pc = "idle"

\* createScenario(name, description, baselineState, modifications, duration)
CreateScenario ==
    /\ idle
    /\ Len(scenarios) < MaxScenarios
    /\ \E modifications \in ModificationLists, duration \in (0 - 1)..MaxDuration :
        LET scenario == [id |-> Len(scenarios) + 1,
                         baselineState |-> jsonRoundTrip(callerState),
                         modifications |-> modifications,
                         duration |-> duration]
        IN  /\ scenarios' = Append(scenarios, scenario)
            /\ out' = [op |-> "createScenario", scenarioId |-> scenario.id]
    /\ UNCHANGED <<opts, trains, conflicts, kpis, results, run, engine>>

\* runSimulation(scenarioId), up to the loop
RunSimulation ==
    /\ idle
    /\ \E scenarioId \in 1..(MaxScenarios + 1) :
        IF scenarioId \notin 1..Len(scenarios)
        THEN /\ out' = [op |-> "runSimulation", scenarioId |-> scenarioId,
                        threw |-> TRUE, error |-> "not_found", ticks |-> 0,
                        timeline |-> << >>]
             /\ UNCHANGED run
        ELSE /\ run' = startRun(scenarioId, scenarios[scenarioId])
             /\ out' = [op |-> "running", scenarioId |-> scenarioId]
    /\ UNCHANGED <<opts, trains, conflicts, kpis, scenarios, results, engine>>

\* one iteration of the loop: reading the time of the baseline timestamp
\* throws when the timestamp has no getTime, and the call ends there
Tick ==
    /\ run.pc = "loop"
    /\ run.minute <= scenarios[run.scenarioId].duration
    /\ IF hasGetTime(scenarios[run.scenarioId].baselineState.timestamp)
       THEN /\ run' = tickBody(run, scenarios[run.scenarioId])
            /\ UNCHANGED out
       ELSE /\ run' = [pc |-> "idle"]
            /\ out' = [op |-> "runSimulation", scenarioId |-> run.scenarioId,
                       threw |-> TRUE, error |-> "type_error", ticks |-> run.minute,
                       timeline |-> run.timeline]
    /\ UNCHANGED <<opts, trains, conflicts, kpis, scenarios, results, engine>>

\* the loop is over: the result is built, stored and returned
FinishSimulation ==
    /\ run.pc = "loop"
    /\ run.minute > scenarios[run.scenarioId].duration
    /\ results' = [id \in DOMAIN results \cup {run.scenarioId} |->
                      IF id = run.scenarioId THEN simulationResult(run) ELSE results[id]]
    /\ run' = [pc |-> "idle"]
    /\ out' = [op |-> "runSimulation", scenarioId |-> run.scenarioId,
               threw |-> FALSE, error |-> "none", ticks |-> run.minute,
               timeline |-> run.timeline]
    /\ UNCHANGED <<opts, trains, conflicts, kpis, scenarios, engine>>

\* performWhatIfAnalysis(question, baselineState, alternativeModifications):
\* a baseline scenario and one scenario per alternative are created with the
\* default duration, then run one after the other; a run that throws ends the
\* call, and the results of the runs before it stay stored
PerformWhatIfAnalysis ==
    /\ idle
    /\ \E alternativeModifications \in AlternativeLists :
        LET all == << << >> >> \o alternativeModifications
            made == [k \in 1..Len(all) |->
                           [id |-> Len(scenarios) + k,
                            baselineState |-> jsonRoundTrip(callerState),
                            modifications |-> all[k],
                            duration |-> defaultDuration]]
            finish(runs) ==
                /\ results' = [id \in DOMAIN results
                                      \cup {runs.results[k].scenarioId : k \in 1..Len(runs.results)} |->
                                  IF \E k \in 1..Len(runs.results) : runs.results[k].scenarioId = id
                                  THEN runs.results[CHOOSE k \in 1..Len(runs.results) :
                                                       runs.results[k].scenarioId = id]
                                  ELSE results[id]]
                /\ out' = IF runs.threw
                          THEN [op |-> "whatIf", threw |-> TRUE,
                                baseline |-> made[1].id,
                                alternatives |-> {made[k].id : k \in 2..Len(made)}]
                          ELSE [op |-> "whatIf", threw |-> FALSE,
                                baseline |-> made[1].id,
                                alternatives |-> {made[k].id : k \in 2..Len(made)},
                                results |-> runs.results,
                                recommended |-> whatIfAnalysis(runs.results).recommended,
                                confidence |-> whatIfAnalysis(runs.results).confidence]
        IN  /\ Len(scenarios) + Len(all) <= MaxScenarios
            /\ scenarios' = scenarios \o made
            /\ finish(runAll(made, << >>))
    /\ UNCHANGED <<opts, trains, conflicts, kpis, run, engine>>

\* The simulation engine, on the caller's current state
SimInit ==
    /\ opts = defaultOptions
    /\ trains \in TrainLists(SimPool, MaxTrains)
    /\ conflicts = << >>
    /\ out = [op |-> "none"]
    /\ kpis \in { [calculateCurrentKPIs([trains |-> trains, conflicts |-> conflicts])
                      EXCEPT !.punctuality = Ratio(p, 1)] : p \in PunctualityShown }
    /\ scenarios = << >>
    /\ results = << >>
    /\ run = [pc |-> "idle"]
    /\ engine = newEngine

SimNext ==
    \/ CreateScenario
    \/ RunSimulation
    \/ Tick
    \/ FinishSimulation
    \/ PerformWhatIfAnalysis

SimSpec == SimInit /\ [][SimNext]_vars

(***************************************************************************)
(* Operations on the real-time engine: the API routes start and stop it,   *)
(* the page initializes the system, the timer fires while it is set.       *)
(***************************************************************************)
engineFrame == <<opts, trains, conflicts, out, kpis, scenarios, results, run>>

\* a call that emits nothing can always be made; one that emits needs room in
\* the record of events
room(e) == Len(e.events) < MaxEvents

Start ==
    /\ engine.isRunning \/ room(engine)
    /\ engine' = [start(engine) EXCEPT !.last = called("start", engine)]
    /\ UNCHANGED engineFrame

Stop ==
    /\ ~engine.isRunning \/ room(engine)
    /\ engine' = [stop(engine) EXCEPT !.last = called("stop", engine)]
    /\ UNCHANGED engineFrame

InitializeSystem ==
    /\ engine.inits < MaxInits
    /\ engine.isRunning \/ room(engine)
    /\ engine' = [initializeSystem(engine) EXCEPT !.last = called("initializeSystem", engine)]
    /\ UNCHANGED engineFrame

ShutdownSystem ==
    /\ ~engine.isRunning \/ room(engine)
    /\ engine' = [shutdownSystem(engine) EXCEPT !.last = called("shutdownSystem", engine)]
    /\ UNCHANGED engineFrame

\* an interval that was set and not cleared fires
TimerFires ==
    /\ engine.timers # {}
    /\ room(engine)
    /\ engine' = [processRealTimeUpdates(engine) EXCEPT !.last = called("timer", engine)]
    /\ UNCHANGED engineFrame

EngineInit ==
    /\ opts = defaultOptions
    /\ trains = << >>
    /\ conflicts = << >>
    /\ out = [op |-> "none"]
    /\ noSimulation

EngineNext ==
    \/ Start
    \/ Stop
    \/ InitializeSystem
    \/ ShutdownSystem
    \/ TimerFires

EngineSpec == EngineInit /\ [][EngineNext]_vars

(***************************************************************************)
(* Properties of the engine                                                *)
(***************************************************************************)
\* the elements of a sequence
Range(q) == {q[i] : i \in 1..Len(q)}

\* C1: detectConflicts never returns a conflict whose two train ids are the
\* same train.
C1_NoSelfConflict ==
    out.op = "detect" =>
        \A k \in 1..Len(out.conflicts) :
            out.conflicts[k].trains[1] # out.conflicts[k].trains[2]

\* C2: no call changes the caller's train list: the list is the same after
\* every step, whatever the recommendation type or the conflict batch.
C2_CallerTrainsUntouched == [][trains' = trains]_vars

\* a batch call has changed its working copy, and the caller's list differs
\* from it
C2_Witness ==
    /\ out.op = "resolve"
    /\ ~out.threw
    /\ \E i \in 1..Len(trains) : out.workingTrains[i].delay # trains[i].delay

\* C3: feasible is true exactly when totalDelayReduction > 0 and the detector
\* finds no conflict on the mutated clone; a hold after which its target has
\* a platform conflict with a third train is not feasible.
C3_FeasibleIffGainAndNoConflict ==
    out.op = "simulate" =>
        /\ out.feasible <=> (out.totalDelayReduction > 0 /\ Len(out.newConflicts) = 0)
        /\ (/\ out.recommendation.type = "hold"
            /\ \E k \in 1..Len(out.newConflicts) :
                 /\ out.newConflicts[k].type = "platform"
                 /\ out.recommendation.targetTrain \in Range(out.newConflicts[k].trains)
                 /\ Range(out.newConflicts[k].trains) \ Range(out.recommendation.affectedTrains) # {})
           => ~out.feasible

\* a generated hold was simulated, and afterwards its target shares a platform
\* with a train that is not part of the conflict
C3_Witness ==
    /\ out.op = "simulate"
    /\ out.recommendation.type = "hold"
    /\ out.recommendation \in generated
    /\ \E k \in 1..Len(out.newConflicts) :
         /\ out.newConflicts[k].type = "platform"
         /\ out.recommendation.targetTrain \in Range(out.newConflicts[k].trains)
         /\ Range(out.newConflicts[k].trains) \ Range(out.recommendation.affectedTrains) # {}
    /\ ~out.feasible

\* the trains of the caller's list that a conflict involves
presentTrains(c) == {i \in 1..Len(trains) : trains[i].id \in Range(c.trains)}

\* priority x priorityWeight[type], in tenths, with the default weights
C4_weighted(t) ==
    t.priority * (CASE t.type = "express" -> 10 [] t.type = "suburban" -> 8
                    [] t.type = "freight" -> 4 [] t.type = "special" -> 12
                    [] t.type = "maintenance" -> 2)

\* C4: with both trains of the conflict in the list there is exactly one hold,
\* and no involved train has a smaller weighted priority than its target; with
\* fewer than two of them in the list the result is empty.
C4_OneHoldOnLowPriority ==
    out.op = "generate" =>
        LET recs == out.recommendations
            present == presentTrains(out.conflict)
            holds == {k \in 1..Len(recs) : recs[k].type = "hold"}
        IN  IF Cardinality(present) >= 2
            THEN /\ Cardinality(holds) = 1
                 /\ \A k \in holds : \E i \in present :
                      /\ trains[i].id = recs[k].targetTrain
                      /\ \A j \in present : C4_weighted(trains[i]) <= C4_weighted(trains[j])
            ELSE recs = << >>

\* the hold targets the train of higher raw priority, because its weighted
\* priority is the lower one
C4_Witness ==
    /\ out.op = "generate"
    /\ \E k \in 1..Len(out.recommendations) : \E i, j \in presentTrains(out.conflict) :
         /\ out.recommendations[k].type = "hold"
         /\ out.recommendations[k].targetTrain = trains[i].id
         /\ trains[i].priority > trains[j].priority

\* the place of a recommendation type in the order hold, reroute, priority_change
C5_typeRank(type) ==
    CASE type = "hold" -> 1 [] type = "reroute" -> 2 [] type = "priority_change" -> 3

\* C5: the list of generateRecommendations is sorted non-increasing by
\* confidence, and hold comes before reroute, reroute before priority_change.
C5_SortedByConfidence ==
    out.op = "generate" =>
        \A i, j \in 1..Len(out.recommendations) :
            i < j => /\ out.recommendations[i].confidence >= out.recommendations[j].confidence
                     /\ C5_typeRank(out.recommendations[i].type)
                            < C5_typeRank(out.recommendations[j].type)

\* all three recommendation types were generated for one conflict
C5_Witness ==
    /\ out.op = "generate"
    /\ {out.recommendations[k].type : k \in 1..Len(out.recommendations)}
           = {"hold", "reroute", "priority_change"}

\* severityWeight x estimatedDelay with the weights critical 4, high 3, medium
\* 2, low 1
C6_product(c) ==
    (CASE c.severity = "critical" -> 4 [] c.severity = "high" -> 3
       [] c.severity = "medium" -> 2 [] c.severity = "low" -> 1) * c.estimatedDelay

\* the conflict of the input list with the given id
C6_conflict(id) == CHOOSE c \in Range(out.input) : c.id = id

\* C6: optimizeSchedule visits every conflict once, and never a conflict of
\* strictly larger severityWeight x estimatedDelay after one of smaller.
C6_ProcessedByWeightTimesDelay ==
    out.op = "optimize" =>
        /\ Len(out.order) = Len(out.input)
        /\ \A c \in Range(out.input) :
             Cardinality({k \in 1..Len(out.order) : out.order[k] = c.id})
                = Cardinality({k \in 1..Len(out.input) : out.input[k].id = c.id})
        /\ \A i, j \in 1..Len(out.order) :
             i < j => C6_product(C6_conflict(out.order[i])) >= C6_product(C6_conflict(out.order[j]))

\* a low conflict of 30 minutes that was passed in after a critical one of 5
\* minutes is processed before it
C6_Witness ==
    /\ out.op = "optimize"
    /\ Len(out.input) = 2
    /\ out.input[1].severity = "critical" /\ out.input[1].estimatedDelay = minutes(5)
    /\ out.input[2].severity = "low" /\ out.input[2].estimatedDelay = minutes(30)
    /\ out.order = << out.input[2].id, out.input[1].id >>

\* C7: resolveMultipleConflicts does not throw when a conflict yields no
\* recommendation; it goes on to the remaining conflicts.
C7_NoRecommendationIsNoError ==
    out.op = "resolve" => (~out.threw /\ Len(out.order) = Len(out.input))


(***************************************************************************)
(* Properties of the simulation engine                                     *)
(***************************************************************************)
\* the scenario ids createScenario has handed out
created == 1..Len(scenarios)

\* C8: runSimulation throws only for an id that no scenario has; a run of a
\* scenario that createScenario made from a state whose timestamp is a Date
\* never throws.
C8_ThrowsOnlyForUnknownId ==
    (out.op = "runSimulation" /\ out.threw) => out.scenarioId \notin created

\* C9: a run of a scenario of non-negative duration ends after exactly
\* duration + 1 passes of the loop body, never earlier.
C9_DurationPlusOneTicks ==
    (out.op = "runSimulation" /\ out.scenarioId \in created
        /\ scenarios[out.scenarioId].duration >= 0)
    => out.ticks = scenarios[out.scenarioId].duration + 1

\* the conflicts the detector finds in the final state of a result
residualConflicts(result) ==
    detectConflicts(result.finalState.trains, result.finalState.tracks, 0)

\* C10: the success flag of a stored result is true exactly when the final
\* state has no conflict left or the final punctuality is above the baseline
\* punctuality.
C10_SuccessIffNoResidualConflict ==
    \A id \in DOMAIN results :
        results[id].success <=>
            \/ residualConflicts(results[id]) = << >>
            \/ greater(results[id].kpiComparison.simulated.punctuality,
                       results[id].kpiComparison.baseline.punctuality)

\* the modifications of a scenario that are scheduled within its duration
C18_scheduled(scenario) ==
    {i \in 1..Len(scenario.modifications) :
        scenario.modifications[i].appliedAt \in 0..scenario.duration}

\* C18: a run of a scenario applies each modification scheduled at a minute of
\* [0, duration] once and no other: when the run has ended, its timeline holds
\* one modification_applied event per such modification.
C18_ScheduledModificationsApplied ==
    (out.op = "runSimulation" /\ out.scenarioId \in created) =>
        Cardinality({k \in 1..Len(out.timeline) :
                        out.timeline[k].type = "modification_applied"})
            = Cardinality(C18_scheduled(scenarios[out.scenarioId]))

\* the result of the analysis for the scenario with the given id
C26_result(id) ==
    out.results[CHOOSE k \in 1..Len(out.results) : out.results[k].scenarioId = id]

\* C26: performWhatIfAnalysis returns a recommendation that rests on one of
\* the alternative scenarios, never on the baseline scenario, and no
\* alternative has a greater weighted score than the one it rests on.
C26_RecommendsBestAlternative ==
    out.op = "whatIf" =>
        /\ ~out.threw
        /\ out.recommended \in out.alternatives
        /\ \A id \in out.alternatives :
             ~greater(calculateScenarioScore(C26_result(id).kpiComparison),
                      calculateScenarioScore(C26_result(out.recommended).kpiComparison))

\* C27: performWhatIfAnalysis returns a confidence that is a number of
\* [0.5, 0.95], also when only the baseline is run.
C27_ConfidenceInRange ==
    out.op = "whatIf" =>
        /\ ~out.threw
        /\ out.confidence.kind = "number"
        /\ ~greater(Ratio(50, 1), out.confidence.value)
        /\ ~greater(out.confidence.value, Ratio(95, 1))

(***************************************************************************)
(* Properties of the worked example and of the KPI functions               *)
(***************************************************************************)
\* the trains at positions x and y of the caller's list are the X and Y of the
\* example: an active express of priority 9 and an active freight train of
\* priority 3, not at a station, bound for the same station at the same speed,
\* with delays half a minute apart
C11_example(x, y) ==
    /\ trains[x].type = "express" /\ trains[x].priority = 9
    /\ trains[y].type = "freight" /\ trains[y].priority = 3
    /\ trains[x].status # "cancelled" /\ trains[y].status # "cancelled"
    /\ trains[x].cur = NoStation /\ trains[y].cur = NoStation
    /\ trains[x].next # NoStation /\ trains[x].next = trains[y].next
    /\ trains[x].speed = trains[y].speed
    /\ Abs(trains[x].delay - trains[y].delay) = 10

\* C11: for the X and Y of the example the detector returns exactly one
\* crossing conflict, critical, of estimated delay 2.5 minutes, and the first
\* recommendation generated for it is a hold of Y with confidence 0.85 and a
\* hold time of 5.5 minutes.
C11_WorkedExample ==
    \A x, y \in 1..Len(trains) :
        C11_example(x, y) =>
            /\ out.op = "detect" =>
                 \E k \in 1..Len(out.conflicts) :
                    /\ out.conflicts[k].type = "crossing"
                    /\ Range(out.conflicts[k].trains) = {trains[x].id, trains[y].id}
                    /\ out.conflicts[k].severity = "critical"
                    /\ out.conflicts[k].estimatedDelay = 50
                    /\ \A m \in 1..Len(out.conflicts) :
                         (/\ out.conflicts[m].type = "crossing"
                          /\ Range(out.conflicts[m].trains) = {trains[x].id, trains[y].id})
                         => m = k
            /\ (/\ out.op = "generate"
                /\ out.conflict.type = "crossing"
                /\ Range(out.conflict.trains) = {trains[x].id, trains[y].id})
               => /\ Len(out.recommendations) >= 1
                  /\ out.recommendations[1].type = "hold"
                  /\ out.recommendations[1].targetTrain = trains[y].id
                  /\ out.recommendations[1].confidence = 85
                  /\ out.recommendations[1].action = Action("hold_for", 110)

\* recommendations were generated for the crossing conflict of the example
C11_Witness ==
    /\ out.op = "generate"
    /\ out.conflict.type = "crossing"
    /\ out.conflict.estimatedDelay = 50
    /\ \E x, y \in 1..Len(trains) :
         /\ C11_example(x, y)
         /\ Range(out.conflict.trains) = {trains[x].id, trains[y].id}
         /\ out.recommendations[1].targetTrain = trains[y].id


\* C12: with at least one train and all delays 0, punctuality is 100 and the
\* average delay 0; for the empty list both are 0; the system efficiency is
\* punctuality minus 5 per conflict, and 0 where that is negative.
C12_KpisGuarded ==
    out.op = "metrics" =>
        LET p == out.punctuality
            e == out.systemEfficiency
            n == Len(conflicts)
        IN  /\ p.den > 0 /\ out.averageDelay.den > 0 /\ e.den > 0
            /\ (Len(trains) >= 1 /\ \A i \in 1..Len(trains) : trains[i].delay = 0)
                => (p.num = 100 * p.den /\ out.averageDelay.num = 0)
            /\ trains = << >> => (p.num = 0 /\ out.averageDelay.num = 0)
            /\ e.num >= 0
            /\ IF p.num >= 5 * n * p.den
               THEN e.num * p.den = (p.num - 5 * n * p.den) * e.den
               ELSE e.num = 0

\* two trains without delay that conflict: punctuality 100, efficiency below
C12_Witness ==
    /\ out.op = "metrics"
    /\ Len(trains) >= 2
    /\ \A i \in 1..Len(trains) : trains[i].delay = 0
    /\ Len(conflicts) >= 1
    /\ out.punctuality.num = 100 * out.punctuality.den
    /\ out.systemEfficiency.num < 100 * out.systemEfficiency.den


(***************************************************************************)
(* Properties of the hold simulation and of the batch optimizer            *)
(***************************************************************************)
\* the sum of the delays of a train list
totalDelay(ts) == SumSeq([i \in 1..Len(ts) |-> ts[i].delay])

\* C13: for a hold whose target is in the list, the totalDelayReduction that
\* simulateRecommendation reports is the sum of the original delays minus the
\* sum of the delays of the simulated list, to which the hold was added.
C13_HoldReportsNetEffect ==
    (/\ out.op = "simulate"
     /\ out.recommendation.type = "hold"
     /\ \E i \in 1..Len(trains) : trains[i].id = out.recommendation.targetTrain)
    => out.totalDelayReduction = totalDelay(trains) - totalDelay(out.simulatedTrains)


\* C14: optimizeSchedule applies nothing: the top-ranked recommendation of
\* every conflict that has one is the hold, its simulation reports a delay
\* reduction of 0 and is not feasible, resolvedConflicts is empty, the total
\* is 0, and optimizedTrains has the delays and priorities of the input.
C14_OptimizeAppliesNothing ==
    out.op = "optimize" =>
        /\ \A k \in 1..Len(out.steps) :
             out.steps[k].top # "none" =>
                /\ out.steps[k].top = "hold"
                /\ out.steps[k].totalDelayReduction = 0
                /\ ~out.steps[k].feasible
        /\ out.resolvedConflicts = << >>
        /\ out.totalDelayReduction = 0
        /\ Len(out.optimizedTrains) = Len(trains)
        /\ \A i \in 1..Len(trains) :
             /\ out.optimizedTrains[i].delay = trains[i].delay
             /\ out.optimizedTrains[i].priority = trains[i].priority

\* a hold was top-ranked, its simulation found no new conflict, and still
\* nothing was resolved
C14_Witness ==
    /\ out.op = "optimize"
    /\ \E k \in 1..Len(out.steps) :
         /\ out.steps[k].top = "hold"
         /\ out.steps[k].newConflicts = 0
         /\ out.steps[k].totalDelayReduction = 0
    /\ out.resolvedConflicts = << >>


\* the iteration logged at position k of an optimizeSchedule result found its
\* top-ranked recommendation feasible
C15_feasible(k) ==
    /\ out.steps[k].top # "none"
    /\ out.steps[k].totalDelayReduction > 0
    /\ out.steps[k].newConflicts = 0

\* the top-ranked recommendation for the conflict of iteration k, generated
\* against the working set that iteration started from
C15_top(k) ==
    LET conflict == CHOOSE c \in Range(conflicts) : c.id = out.steps[k].conflictId
        first(recommendations) ==
            IF Len(recommendations) = 0 THEN "none" ELSE recommendations[1].type
    IN  first(generateRecommendations(conflict, out.steps[k].before, opts))

\* C15: optimizeSchedule visits every conflict once, each iteration starting
\* from the working set the previous one left; an iteration changes the working
\* set only when the top-ranked recommendation generated against that working
\* set simulated as feasible; resolvedConflicts lists exactly the conflicts of
\* the feasible iterations in processing order, and totalDelayReduction is the
\* sum of their simulated reductions.
C15_AppliedOnlyWhenFeasible ==
    out.op = "optimize" =>
        /\ Len(out.steps) = Len(conflicts)
        /\ out.order = [k \in 1..Len(out.steps) |-> out.steps[k].conflictId]
        /\ \A c \in Range(conflicts) :
             Cardinality({k \in 1..Len(out.order) : out.order[k] = c.id}) >= 1
        /\ \A k \in 1..Len(out.steps) :
             /\ out.steps[k].top = C15_top(k)
             /\ out.steps[k].before = (IF k = 1 THEN trains ELSE out.steps[k - 1].after)
             /\ (out.steps[k].after # out.steps[k].before) => C15_feasible(k)
        /\ out.optimizedTrains
             = (IF Len(out.steps) = 0 THEN trains ELSE out.steps[Len(out.steps)].after)
        /\ out.resolvedConflicts
             = AtPositions(out.order, {k \in 1..Len(out.steps) : C15_feasible(k)})
        /\ out.totalDelayReduction
             = SumSeq([k \in 1..Len(out.steps) |->
                        IF C15_feasible(k) THEN out.steps[k].totalDelayReduction ELSE 0])

\* a conflict with a recommendation was skipped and a later one was processed
C15_Witness ==
    /\ out.op = "optimize"
    /\ Len(out.steps) >= 2
    /\ out.steps[1].top # "none"
    /\ ~C15_feasible(1)
    /\ out.steps[1].after = out.steps[1].before
    /\ out.steps[2].top # "none"
    /\ out.steps[1].conflictId \notin Range(out.resolvedConflicts)


\* C16: resolveMultipleConflicts visits the conflicts in the order of
\* optimizeSchedule's rule: never a conflict of strictly larger
\* severityWeight x estimatedDelay, with the weights critical 4, high 3,
\* medium 2, low 1, after one of smaller.
C16_ResolverOrderIsOptimizerOrder ==
    out.op = "resolve" =>
        \A i, j \in 1..Len(out.order) :
            i < j => C6_product(C6_conflict(out.order[i])) >= C6_product(C6_conflict(out.order[j]))


\* confidence x 40 + min(2 x simulated delay reduction, 30) + 20 if feasible
\* - 5 per conflict detected after the simulation + the bonus of the severity
\* (critical 15, high 10, medium 5, low 0), kept within [0, 100]; in twentieths
\* of a point, the confidence being in hundredths
C17_score(item, severity) ==
    LET bonus == CASE severity = "critical" -> 15 [] severity = "high" -> 10
                   [] severity = "medium" -> 5 [] severity = "low" -> 0
        raw == item.recommendation.confidence * 8
               + (IF 2 * item.simulation.totalDelayReduction < 30 * 20
                  THEN 2 * item.simulation.totalDelayReduction ELSE 30 * 20)
               + (IF item.simulation.feasible THEN 20 * 20 ELSE 0)
               - 5 * 20 * item.simulation.newConflicts
               + 20 * bonus
    IN  IF raw < 0 THEN 0 ELSE IF raw > 100 * 20 THEN 100 * 20 ELSE raw

\* what simulating the recommendation against the caller's trains returns
C17_simulation(rec) ==
    LET summary(simulation) ==
            [totalDelayReduction |-> simulation.totalDelayReduction,
             newConflicts |-> Len(simulation.newConflicts),
             feasible |-> simulation.feasible]
    IN  summary(simulateRecommendation(rec, callerHeap, "caller", 1))

\* C17: every candidate of resolveConflict is scored by the formula above on
\* its own simulation, every score is within [0, 100], and the primary
\* recommendation is a candidate whose score no other candidate exceeds, the
\* alternatives being the next two.
C17_ScoreFormulaAndPrimaryIsBest ==
    (out.op = "resolveConflict" /\ ~out.threw) =>
        /\ Len(out.scoredRecommendations) >= 1
        /\ \A k \in 1..Len(out.scoredRecommendations) :
             /\ out.scoredRecommendations[k].simulation
                    = C17_simulation(out.scoredRecommendations[k].recommendation)
             /\ out.scoredRecommendations[k].score
                    = C17_score(out.scoredRecommendations[k], out.conflict.severity)
             /\ out.scoredRecommendations[k].score >= 0
             /\ out.scoredRecommendations[k].score <= 100 * 20
             /\ out.scoredRecommendations[k].score <= out.confidence
        /\ out.primaryRecommendation = out.scoredRecommendations[1].recommendation
        /\ out.confidence = out.scoredRecommendations[1].score
        /\ Len(out.alternativeRecommendations) <= 2
        /\ \A a \in 1..Len(out.alternativeRecommendations) :
             out.alternativeRecommendations[a] = out.scoredRecommendations[a + 1].recommendation

\* candidates of different scores, one of them penalised for the conflicts its
\* simulation detected, for a conflict whose severity earns a bonus
C17_Witness ==
    /\ out.op = "resolveConflict" /\ ~out.threw
    /\ out.conflict.severity = "critical"
    /\ Len(out.scoredRecommendations) >= 2
    /\ out.alternativeRecommendations # << >>
    /\ \E k \in 1..Len(out.scoredRecommendations) :
         /\ out.scoredRecommendations[k].simulation.newConflicts > 0
         /\ out.scoredRecommendations[k].score < out.confidence


(***************************************************************************)
(* Properties of the detector's buckets and of the callers' lists          *)
(***************************************************************************)
\* the train of the caller's list with the given id
C22_train(id) == trains[CHOOSE i \in 1..Len(trains) : trains[i].id = id]

\* C22: the detector emits a platform conflict for two trains only when both
\* have a currentStation and it is the same station.
C22_PlatformNeedsCurrentStation ==
    out.op = "detect" =>
        \A k \in 1..Len(out.conflicts) :
            out.conflicts[k].type = "platform" =>
                /\ C22_train(out.conflicts[k].trains[1]).cur # NoStation
                /\ C22_train(out.conflicts[k].trains[2]).cur # NoStation
                /\ C22_train(out.conflicts[k].trains[1]).cur
                      = C22_train(out.conflicts[k].trains[2]).cur


\* the conflicts of the given type that a detector result holds for the two
\* trains, in either order
C23_found(type, a, b) ==
    {k \in 1..Len(out.conflicts) :
        /\ out.conflicts[k].type = type
        /\ out.conflicts[k].trains \in {<<a, b>>, <<b, a>>}}

\* C23: one pass of the detector yields at most one crossing conflict and at
\* most one platform conflict for every pair of distinct trains.
C23_OneConflictPerPair ==
    out.op = "detect" =>
        \A i, j \in 1..Len(trains) :
            i < j =>
                /\ Cardinality(C23_found("crossing", trains[i].id, trains[j].id)) <= 1
                /\ Cardinality(C23_found("platform", trains[i].id, trains[j].id)) <= 1


\* the conflict is between two trains other than the target of the simulated
\* recommendation, and the detector finds the same conflict (type, trains and
\* location) in the caller's list as it was passed in
C24_alreadyThere(c) ==
    /\ c.trains[1] # c.trains[2]
    /\ out.recommendation.targetTrain \notin Range(c.trains)
    /\ \E d \in Range(detectConflicts(trains, << >>, 0)) :
         d.type = c.type /\ d.trains = c.trains /\ d.location = c.location

\* C24: the newConflicts of simulateRecommendation hold no conflict between two
\* untouched trains that the detector already finds in the input list.
C24_NewConflictsAreNew ==
    out.op = "simulate" =>
        \A k \in 1..Len(out.newConflicts) : ~C24_alreadyThere(out.newConflicts[k])


\* C28: a call of optimizeSchedule or resolveMultipleConflicts leaves the
\* caller's conflict list as it was: the same conflicts in the same order.
C28_CallerConflictsUntouched ==
    [][(out'.op \in {"optimize", "resolve"}) => conflicts' = conflicts]_vars


(***************************************************************************)
(* Properties of the real-time engine                                      *)
(***************************************************************************)
\* the system:started and system:stopped events emitted, in their order
C29_systemEvents ==
    Filter(engine.events, LAMBDA ev : ev \in {"system:started", "system:stopped"})

\* C29: the engine is running exactly when its update timer is set, no other
\* timer is active, a start() of a running engine and a stop() of a stopped
\* one change nothing, and system:started and system:stopped alternate,
\* system:started first.
C29_RunningIffOneTimer ==
    /\ engine.isRunning <=> engine.updateInterval # noTimer
    /\ engine.timers = (IF engine.isRunning THEN {engine.updateInterval} ELSE {})
    /\ Cardinality(engine.timers) <= 1
    /\ \A k \in 1..Len(C29_systemEvents) :
         C29_systemEvents[k] = (IF k % 2 = 1 THEN "system:started" ELSE "system:stopped")
    /\ engine.isRunning <=> (Len(C29_systemEvents) % 2 = 1)
    /\ (\/ engine.last.call = "start" /\ engine.last.wasRunning
        \/ engine.last.call = "stop" /\ ~engine.last.wasRunning)
       => engine.last.before
            = [isRunning |-> engine.isRunning, updateInterval |-> engine.updateInterval,
               timers |-> engine.timers, events |-> engine.events,
               listeners |-> engine.listeners, notified |-> engine.notified]

\* the engine was started, stopped and started again, and then start() was
\* called once more
C29_Witness ==
    /\ engine.last.call = "start"
    /\ engine.last.wasRunning
    /\ C29_systemEvents = <<"system:started", "system:stopped", "system:started">>
    /\ engine.timers = {engine.updateInterval}

\* C30: after initializeSystem was called on a stopped engine, the
\* system:started listener of that call has been notified of the
\* system:started event that the call emitted.
C30_ListenerHearsOwnStart ==
    (engine.last.call = "initializeSystem" /\ ~engine.last.wasRunning) =>
        \E k \in 1..Len(engine.notified) :
            /\ engine.notified[k].listener
                  = [event |-> "system:started", owner |-> engine.inits]
            /\ engine.notified[k].at = Len(engine.last.before.events) + 1

=============================================================================
